---- MODULE Spec2Model ----
(***************************************************************************)
(* Frame transport of zdesk: the client receive loop                       *)
(* (srv/zdesk_client.py, ReceiveThread) and the server accept/stream loop  *)
(* (srv/zdesk_server.py, StreamThread).                                    *)
(*                                                                         *)
(* SpecClient: one ReceiveThread, the GUI thread calling stop(), and the   *)
(*             peer writing length-prefixed messages on the TCP stream.    *)
(* SpecServer: one StreamThread, the GUI thread calling set_frame() and    *)
(*             stop(), and clients connecting to the listening port.       *)
(***************************************************************************)
EXTENDS Integers, Sequences, FiniteSets, TLC

(* ---------------------------- bounds ----------------------------------- *)
MaxMsgs == 2        \* messages the peer writes on the client's connection
MaxFrame == 2       \* distinct images the peer may encode (client model)
RecvBuf == 4        \* bytes the client's socket buffers before the peer's write blocks
NClients == 2       \* clients that connect to the server, once each
MaxSets == 2        \* set_frame calls
MaxSends == 2       \* messages the server begins to write

(* ------------------------- program constants --------------------------- *)
HeaderLen == 4      \* recv_exact(4) / struct.pack('!I', size)
ByteBase == 256
JPEG_SOI == 255     \* first byte of every JPEG stream (0xFF)
None == 0           \* Python None for values that are otherwise >= 1

VARIABLES
  \* ---- ReceiveThread (client) ----
  c_pc,          \* position of the receive thread
  c_running,     \* self.running
  c_sock,        \* self.client_socket: "none" | "open" | "closed"
  phase,         \* which recv_exact call is active: "hdr" | "body"
  size,          \* recv_exact: size
  data,          \* recv_exact: data accumulated so far
  frame_size,    \* run: frame_size
  c_status,      \* status_update emissions, in order
  g_cpc,         \* GUI thread inside ReceiveThread.stop()
  \* ---- the client's TCP connection ----
  stream,        \* every byte the peer has written and TCP has delivered, in order
  unsent,        \* bytes of the message being written that are not yet in stream
  rdPos,         \* number of bytes of stream recv() has returned
  callPos,       \* rdPos when the current recv_exact call started
  peerClosed,    \* the peer closed its end (FIN after the written bytes)
  peerReset,     \* the connection was reset (recv raises)
  sentLog,       \* payloads of the messages the peer has begun to write
  split,         \* the current recv_exact call got a short read or a timeout after data
  decoderLog,    \* calls of decompress_frame: [buf, n, pos]
  sinkLog        \* frame_received emissions: [img, pos]

VARIABLES
  \* ---- StreamThread (server) ----
  s_pc,           \* position of the stream thread
  s_running,      \* self.running
  server_socket,  \* self.server_socket: "none" | "unbound" | "open" | "closed"
  client_socket,  \* self.client_socket: None or the accepted connection
  current_frame,  \* self.current_frame: None or an image
  frame_data,     \* stream_to_client: frame_data (<<>> while the local is dead)
  s_status,       \* status_update emissions about the listener and the clients, in order
  s_errors,       \* status_update emissions that report an error (the texts emitted)
  g_spc,          \* GUI thread inside StreamThread.stop()
  \* ---- the server's connections ----
  conn,           \* per client: "new" | "queued" | "open" | "closed"
  backlog,        \* connections completed by the kernel, not yet accepted
  out,            \* per client: the bytes written on its connection
  failed,         \* connections on which a sendall() raised
  nsends,         \* messages whose header has been written
  setCount,       \* set_frame calls so far; the k-th call passes image k
  encoded         \* the image last handed to compress_frame (None: none yet)

svars == <<s_pc, s_running, server_socket, client_socket, current_frame,
           frame_data, s_status, s_errors, g_spc, conn, backlog, out, failed,
           nsends, setCount, encoded>>

cvars == <<c_pc, c_running, c_sock, phase, size, data, frame_size, c_status, g_cpc, stream, unsent, rdPos, callPos, peerClosed, peerReset,
           sentLog, split, decoderLog, sinkLog>>

vars == <<cvars, svars>>

(* ----------------------------- helpers --------------------------------- *)
Min(a, b) == IF a < b THEN a ELSE b

RECURSIVE SumLen(_, _)
\* total wire length of the first k messages of a payload sequence
SumLen(s, k) == IF k = 0 THEN 0 ELSE SumLen(s, k - 1) + HeaderLen + Len(s[k])

\* struct.pack('!I', n): 4 bytes, most significant first
pack(n) == << (n \div (ByteBase * ByteBase * ByteBase)) % ByteBase,
              (n \div (ByteBase * ByteBase)) % ByteBase,
              (n \div ByteBase) % ByteBase,
              n % ByteBase >>

\* struct.unpack('!I', b)[0]
unpack(b) == ((b[1] * ByteBase + b[2]) * ByteBase + b[3]) * ByteBase + b[4]

\* StreamThread.compress_frame: the JPEG bytes of image f (its length
\* depends on the image)
compress_frame(f) == <<JPEG_SOI>> \o [i \in 1..f |-> f]

\* ReceiveThread.decompress_frame: the image, or None when PIL raises
decompress_frame(d) ==
  IF /\ Len(d) >= 2
     /\ d[1] = JPEG_SOI
     /\ Len(d) = d[2] + 1
     /\ \A i \in 2..Len(d) : d[i] = d[2]
  THEN d[2] ELSE None

\* a payload whose bytes were scrambled in transit (same length)
Scramble(p) == [i \in 1..Len(p) |-> p[Len(p) + 1 - i]]

ValidPayloads == { compress_frame(f) : f \in 1..MaxFrame }
CorruptPayloads == { Scramble(compress_frame(1)) }
Payloads == ValidPayloads \cup CorruptPayloads

\* recv_exact line 87: data if len(data) == size else None
RecvExactReturn(d, sz) ==
  IF Len(d) = sz THEN [ok |-> TRUE, data |-> d] ELSE [ok |-> FALSE, data |-> <<>>]

\* Python truthiness of the value recv_exact returned
Truthy(r) == r.ok /\ r.data # <<>>

(* ======================= ReceiveThread (client) ======================== *)

\* recv_exact line 77: while len(data) < size and self.running
RecvLoopCond(d, sz, running) == Len(d) < sz /\ running

\* recv_exact lines 85-86: a timed-out recv() keeps what was accumulated
OnTimeoutMutDiscard(d) == <<>>
OnTimeout(d) == d

\* recv_exact line 84: data += chunk
AccumulateMutReplace(d, chunk) == chunk
Accumulate(d, chunk) == d \o chunk

\* run lines 56-58: where the loop goes after decompress_frame returned q
AfterDecodeMutBreak(q) == IF q = None THEN "finally" ELSE "loop"
AfterDecode(q) == "loop"

\* run line 58: self.frame_received.emit(qimage)
EmitFrameMutTwice(log, q, pos) == log \o << [img |-> q, pos |-> pos], [img |-> q, pos |-> pos] >>
EmitFrame(log, q, pos) == Append(log, [img |-> q, pos |-> pos])

\* run lines 60-65: the handlers of the inner try; every exception raised
\* inside the loop is caught by one of them
InnerHandler(exc) == IF exc = "timeout" THEN "continue" ELSE "break"

CUnchangedNet == UNCHANGED <<stream, unsent, peerClosed, peerReset, sentLog, svars>>

\* QThread.start() (ClientWindow.toggle_connection line 188)
CStart ==
  /\ c_pc = "idle"
  /\ c_pc' = "run"
  /\ UNCHANGED <<c_running, c_sock, phase, size, data, frame_size, c_status, g_cpc, rdPos, callPos, split, decoderLog, sinkLog>>
  /\ CUnchangedNet

\* run line 31
CRun ==
  /\ c_pc = "run"
  /\ c_running' = TRUE
  /\ c_pc' = "connect"
  /\ UNCHANGED <<c_sock, phase, size, data, frame_size, c_status, g_cpc, rdPos, callPos, split, decoderLog, sinkLog>>
  /\ CUnchangedNet

\* run lines 35-38, connect succeeds
CConnectOk ==
  /\ c_pc = "connect"
  /\ c_sock' = "open"
  /\ c_status' = Append(c_status, "Connected")
  /\ c_pc' = "loop"
  /\ UNCHANGED <<c_running, phase, size, data, frame_size, g_cpc, rdPos, callPos, split, decoderLog, sinkLog>>
  /\ CUnchangedNet

\* run lines 67-72: after the outer handler the finally block runs and
\* run returns
AfterConnectErrorMutRetry == "connect"
AfterConnectError == "finally"

\* run lines 35-37 raise (refused, timed out); handler at lines 67-68
CConnectFail ==
  /\ c_pc = "connect"
  /\ c_sock' = "open"
  /\ c_status' = Append(c_status, "Connection error")
  /\ c_pc' = AfterConnectError
  /\ UNCHANGED <<c_running, phase, size, data, frame_size, g_cpc, rdPos, callPos, split, decoderLog, sinkLog>>
  /\ CUnchangedNet

\* run line 41 and the call recv_exact(4) at line 44
CLoop ==
  /\ c_pc = "loop"
  /\ IF c_running
       THEN /\ phase' = "hdr"
            /\ size' = HeaderLen
            /\ data' = <<>>
            /\ callPos' = rdPos
            /\ split' = FALSE
            /\ c_pc' = "recv_test"
       ELSE /\ c_pc' = "finally"
            /\ UNCHANGED <<phase, size, data, callPos, split>>
  /\ UNCHANGED <<c_running, c_sock, frame_size, c_status, g_cpc,
                 rdPos, decoderLog, sinkLog>>
  /\ CUnchangedNet

\* run lines 45-53: what run does with the value r a recv_exact call returned
CReturn(r) ==
  IF ~Truthy(r)
    THEN /\ c_pc' = "finally"
         /\ UNCHANGED <<phase, size, data, frame_size, callPos, split>>
    ELSE IF phase = "hdr"
      THEN /\ frame_size' = unpack(r.data)
           /\ phase' = "body"
           /\ size' = unpack(r.data)
           /\ data' = <<>>
           /\ callPos' = rdPos
           /\ split' = FALSE
           /\ c_pc' = "recv_test"
      ELSE /\ c_pc' = "decode"
           /\ data' = r.data
           /\ UNCHANGED <<phase, size, frame_size, callPos, split>>

\* recv_exact line 77 (loop test) and line 87 (return)
CRecvTest ==
  /\ c_pc = "recv_test"
  /\ IF RecvLoopCond(data, size, c_running)
       THEN /\ c_pc' = "recv_call"
            /\ UNCHANGED <<phase, size, data, frame_size, callPos, split>>
       ELSE CReturn(RecvExactReturn(data, size))
  /\ UNCHANGED <<c_running, c_sock, c_status, g_cpc, rdPos,
                 decoderLog, sinkLog>>
  /\ CUnchangedNet

\* recv_exact lines 81-84: recv() returns k >= 1 bytes, at most the number
\* asked for and at most what has arrived
CRecvChunk ==
  /\ c_pc = "recv_call"
  /\ c_sock = "open"
  /\ ~peerReset
  /\ \E k \in 1..Min(size - Len(data), Len(stream) - rdPos) :
       /\ data' = Accumulate(data, SubSeq(stream, rdPos + 1, rdPos + k))
       /\ rdPos' = rdPos + k
       /\ split' = (split \/ k < size - Len(data))
  /\ c_pc' = "recv_test"
  /\ UNCHANGED <<c_running, c_sock, phase, size, frame_size, c_status, g_cpc,
                 callPos, decoderLog, sinkLog>>
  /\ CUnchangedNet

\* recv_exact lines 82-83: what recv_exact does when recv() returns b''
EOFOutcomeMutIgnore == "continue"
EOFOutcome == "return_none"

\* recv_exact lines 82-83: recv() returns b'' (the peer closed and every
\* byte written has been read); recv_exact returns None
CRecvEOF ==
  /\ c_pc = "recv_call"
  /\ c_sock = "open"
  /\ ~peerReset
  /\ peerClosed
  /\ rdPos = Len(stream)
  /\ IF EOFOutcome = "return_none"
       THEN CReturn([ok |-> FALSE, data |-> <<>>])
       ELSE /\ c_pc' = "recv_test"
            /\ UNCHANGED <<phase, size, data, frame_size, callPos, split>>
  /\ UNCHANGED <<c_running, c_sock, c_status, g_cpc, rdPos,
                 decoderLog, sinkLog>>
  /\ CUnchangedNet

\* recv_exact lines 85-86: recv() raises socket.timeout (nothing arrived)
CRecvTimeout ==
  /\ c_pc = "recv_call"
  /\ c_sock = "open"
  /\ ~peerReset
  /\ ~peerClosed
  /\ rdPos = Len(stream)
  /\ data' = OnTimeout(data)
  /\ split' = (split \/ data # <<>>)
  /\ c_pc' = "recv_test"
  /\ UNCHANGED <<c_running, c_sock, phase, size, frame_size, c_status, g_cpc,
                 rdPos, callPos, decoderLog, sinkLog>>
  /\ CUnchangedNet

\* recv() raises an OSError other than a timeout (connection reset, or the
\* socket was closed by stop()); it leaves recv_exact and is handled by
\* run lines 62-65
CRecvError ==
  /\ c_pc = "recv_call"
  /\ peerReset \/ c_sock = "closed"
  /\ IF InnerHandler("oserror") = "break"
       THEN /\ c_status' = IF c_running THEN Append(c_status, "Error")
                                        ELSE c_status
            /\ c_pc' = "finally"
       ELSE /\ c_pc' = "loop"
            /\ UNCHANGED c_status
  /\ UNCHANGED <<c_running, c_sock, phase, size, data, frame_size, g_cpc, rdPos, callPos, split, decoderLog, sinkLog>>
  /\ CUnchangedNet

\* run lines 56-58 with decompress_frame lines 89-108
CDecode ==
  /\ c_pc = "decode"
  /\ LET q == decompress_frame(data) IN
       /\ decoderLog' = Append(decoderLog,
                               [buf |-> data, n |-> frame_size, pos |-> rdPos])
       /\ c_status' = IF q = None THEN Append(c_status, "Decompression error")
                                  ELSE c_status
       /\ sinkLog' = IF q # None THEN EmitFrame(sinkLog, q, rdPos) ELSE sinkLog
       /\ c_pc' = AfterDecode(q)
  /\ UNCHANGED <<c_running, c_sock, phase, size, data, frame_size, g_cpc,
                 rdPos, callPos, split>>
  /\ CUnchangedNet

\* run lines 69-72
CFinally ==
  /\ c_pc = "finally"
  /\ c_sock' = IF c_sock # "none" THEN "closed" ELSE c_sock
  /\ c_status' = Append(c_status, "Disconnected")
  /\ c_pc' = "done"
  /\ UNCHANGED <<c_running, phase, size, data, frame_size, g_cpc, rdPos, callPos, split, decoderLog, sinkLog>>
  /\ CUnchangedNet

\* ReceiveThread.stop line 112, called from the GUI thread
CStopFlag ==
  /\ g_cpc = "none"
  /\ c_pc # "idle"
  /\ c_running' = FALSE
  /\ g_cpc' = "close"
  /\ UNCHANGED <<c_pc, c_sock, phase, size, data, frame_size, c_status, rdPos, callPos, split, decoderLog, sinkLog>>
  /\ CUnchangedNet

\* ReceiveThread.stop lines 113-114
CStopClose ==
  /\ g_cpc = "close"
  /\ c_sock' = IF c_sock # "none" THEN "closed" ELSE c_sock
  /\ g_cpc' = "returned"
  /\ UNCHANGED <<c_pc, c_running, phase, size, data, frame_size, c_status, rdPos, callPos, split, decoderLog, sinkLog>>
  /\ CUnchangedNet

(* ------------------ the peer of the client's connection ---------------- *)
Established == c_pc \in {"loop", "recv_test", "recv_call", "decode"}
PeerAlive == Established /\ ~peerClosed /\ ~peerReset

\* StreamThread.stream_to_client lines 80-86: header, then payload; the
\* server writes a message only for a non-empty payload
WireMessage(p) == pack(Len(p)) \o p

PUnchangedClient == UNCHANGED <<c_pc, c_running, c_sock, phase, size, data,
                                frame_size, c_status, g_cpc, rdPos, callPos,
                                split, decoderLog, sinkLog, svars>>

\* the peer starts the two sendall() calls of a message; TCP carries the
\* bytes over in segments of any size, the first one here, as far as the
\* receive buffer has room for bytes not yet read
PeerSend ==
  /\ PeerAlive
  /\ unsent = <<>>
  /\ Len(sentLog) < MaxMsgs
  /\ \E p \in Payloads :
       /\ p # <<>>
       /\ sentLog' = Append(sentLog, p)
       /\ \E k \in 1..Min(Len(WireMessage(p)), RecvBuf - (Len(stream) - rdPos)) :
            /\ stream' = stream \o SubSeq(WireMessage(p), 1, k)
            /\ unsent' = SubSeq(WireMessage(p), k + 1, Len(WireMessage(p)))
  /\ UNCHANGED <<peerClosed, peerReset>>
  /\ PUnchangedClient

\* a peer that is not this server writes a message whose length field is 0:
\* four zero bytes and no payload
PeerSendEmpty ==
  /\ PeerAlive
  /\ unsent = <<>>
  /\ Len(sentLog) < MaxMsgs
  /\ sentLog' = Append(sentLog, <<>>)
  /\ \E k \in 1..Min(HeaderLen, RecvBuf - (Len(stream) - rdPos)) :
       /\ stream' = stream \o SubSeq(WireMessage(<<>>), 1, k)
       /\ unsent' = SubSeq(WireMessage(<<>>), k + 1, HeaderLen)
  /\ UNCHANGED <<peerClosed, peerReset>>
  /\ PUnchangedClient

\* a further segment of the message being written arrives
PeerSendMore ==
  /\ PeerAlive
  /\ unsent # <<>>
  /\ \E k \in 1..Min(Len(unsent), RecvBuf - (Len(stream) - rdPos)) :
       /\ stream' = stream \o SubSeq(unsent, 1, k)
       /\ unsent' = SubSeq(unsent, k + 1, Len(unsent))
  /\ UNCHANGED <<peerClosed, peerReset, sentLog>>
  /\ PUnchangedClient

\* the peer's end closes, between two messages or in the middle of one
PeerClose ==
  /\ PeerAlive
  /\ peerClosed' = TRUE
  /\ UNCHANGED <<stream, unsent, peerReset, sentLog>>
  /\ PUnchangedClient

\* the connection is reset: the next recv() raises ConnectionResetError
PeerReset ==
  /\ PeerAlive
  /\ peerReset' = TRUE
  /\ UNCHANGED <<stream, unsent, peerClosed, sentLog>>
  /\ PUnchangedClient

CInit ==
  /\ c_pc = "idle"
  /\ c_running = FALSE
  /\ c_sock = "none"
  /\ phase = "hdr"
  /\ size = 0
  /\ data = <<>>
  /\ frame_size = 0
  /\ c_status = <<>>
  /\ g_cpc = "none"
  /\ stream = <<>>
  /\ unsent = <<>>
  /\ rdPos = 0
  /\ callPos = 0
  /\ peerClosed = FALSE
  /\ peerReset = FALSE
  /\ sentLog = <<>>
  /\ split = FALSE
  /\ decoderLog = <<>>
  /\ sinkLog = <<>>

ClientThread == CStart \/ CRun \/ CConnectOk \/ CConnectFail \/ CLoop
                \/ CRecvTest \/ CRecvChunk \/ CRecvEOF \/ CRecvTimeout
                \/ CRecvError \/ CDecode \/ CFinally

CNext == ClientThread \/ CStopFlag \/ CStopClose
         \/ PeerSend \/ PeerSendMore \/ PeerClose \/ PeerReset

(* ======================== StreamThread (server) ======================== *)
Clients == 1..NClients

\* __init__ line 28: self.current_frame = None
InitialFrameMutPlaceholder == None + 1
InitialFrame == None

\* set_frame line 115: self.current_frame = qimage
SetFrameMutKeepFirst(cur, qimage) == IF cur = None THEN qimage ELSE cur
SetFrameValue(cur, qimage) == qimage

\* run line 51: the accept loop calls stream_to_client itself and goes on
\* only when it has returned
AfterAcceptMutSpawn == "loop"
AfterAccept == "stream_test"

\* stream_to_client lines 88-92: both handlers leave the streaming loop
AfterSendErrorMutRetry == "stream_test"
AfterSendError == "inner_finally"

\* run lines 59-61: the finally block closes the accepted socket
FinallyCloseMutLeak(st) == st
FinallyClose(st) == "closed"

SInit ==
  /\ s_pc = "idle"
  /\ s_running = FALSE
  /\ server_socket = "none"
  /\ client_socket = None
  /\ current_frame = InitialFrame
  /\ frame_data = <<>>
  /\ s_status = <<>>
  /\ s_errors = {}
  /\ g_spc = "none"
  /\ conn = [c \in Clients |-> "new"]
  /\ backlog = <<>>
  /\ out = [c \in Clients |-> <<>>]
  /\ failed = {}
  /\ nsends = 0
  /\ setCount = 0
  /\ encoded = None

\* QThread.start() (ServerWindow.toggle_server line 205)
SStart ==
  /\ s_pc = "idle"
  /\ s_pc' = "run"
  /\ UNCHANGED <<s_running, server_socket, client_socket, current_frame,
                 frame_data, s_status, s_errors, g_spc, conn, backlog, out, failed,
                 nsends, setCount, encoded>>
  /\ UNCHANGED cvars

\* run line 32
SRun ==
  /\ s_pc = "run"
  /\ s_running' = TRUE
  /\ s_pc' = "bind"
  /\ UNCHANGED <<server_socket, client_socket, current_frame,
                 frame_data, s_status, s_errors, g_spc, conn, backlog, out, failed,
                 nsends, setCount, encoded>>
  /\ UNCHANGED cvars

\* run lines 36-42, bind and listen succeed
SBindOk ==
  /\ s_pc = "bind"
  /\ server_socket' = "open"
  /\ s_status' = Append(s_status, "Server listening")
  /\ s_pc' = "loop"
  /\ UNCHANGED <<s_running, client_socket, current_frame,
                 frame_data, s_errors, g_spc, conn, backlog, out, failed,
                 nsends, setCount, encoded>>
  /\ UNCHANGED cvars

\* run lines 64-68: after the outer handler the finally block runs and run
\* returns
AfterBindErrorMutRetry == "bind"
AfterBindError == "outer_finally"

\* run line 38 raises (port in use); handler at lines 64-65
SBindFail ==
  /\ s_pc = "bind"
  /\ server_socket' = "unbound"
  /\ s_errors' = s_errors \cup {"Server error"}
  /\ s_pc' = AfterBindError
  /\ UNCHANGED <<s_running, client_socket, current_frame,
                 frame_data, s_status, g_spc, conn, backlog, out, failed,
                 nsends, setCount, encoded>>
  /\ UNCHANGED cvars

\* run line 44: while self.running
AcceptLoopCondMutIgnore(running) == TRUE
AcceptLoopCond(running) == running

\* run line 44
SLoop ==
  /\ s_pc = "loop"
  /\ s_pc' = IF AcceptLoopCond(s_running) THEN "accept" ELSE "outer_finally"
  /\ UNCHANGED <<s_running, server_socket, client_socket, current_frame,
                 frame_data, s_status, s_errors, g_spc, conn, backlog, out, failed,
                 nsends, setCount, encoded>>
  /\ UNCHANGED cvars

\* run lines 47-48: accept() returns the oldest pending connection
SAccept ==
  /\ s_pc = "accept"
  /\ server_socket = "open"
  /\ backlog # <<>>
  /\ client_socket' = Head(backlog)
  /\ backlog' = Tail(backlog)
  /\ conn' = [conn EXCEPT ![Head(backlog)] = "open"]
  /\ s_status' = Append(s_status, "Client connected")
  /\ s_pc' = AfterAccept
  /\ UNCHANGED <<s_running, server_socket, current_frame,
                 frame_data, s_errors, g_spc, out, failed,
                 nsends, setCount, encoded>>
  /\ UNCHANGED cvars

\* run lines 58-62 with self.client_socket None: the finally block emits
\* nothing
NoSocketFinallyMutEmits(st) == Append(st, "Client disconnected")
NoSocketFinally(st) == st

\* run lines 53-54: accept() times out after 1 s with nothing pending; the
\* finally block (lines 58-62) finds no accepted socket and does nothing
SAcceptTimeout ==
  /\ s_pc = "accept"
  /\ server_socket = "open"
  /\ backlog = <<>>
  /\ s_status' = NoSocketFinally(s_status)
  /\ s_pc' = "loop"
  /\ UNCHANGED <<s_running, server_socket, client_socket, current_frame,
                 frame_data, s_errors, g_spc, conn, backlog, out, failed,
                 nsends, setCount, encoded>>
  /\ UNCHANGED cvars

\* run lines 55-57: accept() raises because stop() closed the listening
\* socket; the finally block (lines 58-62) finds no accepted socket
SAcceptError ==
  /\ s_pc = "accept"
  /\ server_socket = "closed"
  /\ s_errors' = IF s_running THEN s_errors \cup {"Error"} ELSE s_errors
  /\ s_pc' = "loop"
  /\ UNCHANGED <<s_running, server_socket, client_socket, current_frame,
                 frame_data, s_status, g_spc, conn, backlog, out, failed,
                 nsends, setCount, encoded>>
  /\ UNCHANGED cvars

\* stream_to_client line 72
SStreamTest ==
  /\ s_pc = "stream_test"
  /\ s_pc' = IF s_running /\ client_socket # None THEN "check_frame"
                                                   ELSE "inner_finally"
  /\ UNCHANGED <<s_running, server_socket, client_socket, current_frame,
                 frame_data, s_status, s_errors, g_spc, conn, backlog, out, failed,
                 nsends, setCount, encoded>>
  /\ UNCHANGED cvars

\* stream_to_client lines 73-74
SCheckFrame ==
  /\ s_pc = "check_frame"
  /\ s_pc' = IF current_frame = None THEN "stream_test" ELSE "compress"
  /\ UNCHANGED <<s_running, server_socket, client_socket, current_frame,
                 frame_data, s_status, s_errors, g_spc, conn, backlog, out, failed,
                 nsends, setCount, encoded>>
  /\ UNCHANGED cvars

\* stream_to_client lines 73-78 read self.current_frame and never assign it
SlotAfterReadMutClear(cur) == None
SlotAfterRead(cur) == cur

\* stream_to_client lines 78-80: the slot is read again and the image
\* compressed; compress_frame raises when handed None (handler lines 90-92)
SCompress ==
  /\ s_pc = "compress"
  /\ IF current_frame = None
       THEN /\ s_errors' = s_errors \cup {"Streaming error"}
            /\ s_pc' = AfterSendError
            /\ UNCHANGED <<frame_data, encoded, current_frame>>
       ELSE /\ frame_data' = compress_frame(current_frame)
            /\ encoded' = current_frame
            /\ current_frame' = SlotAfterRead(current_frame)
            /\ s_pc' = IF compress_frame(current_frame) # <<>> THEN "send_hdr"
                                                               ELSE "stream_test"
            /\ UNCHANGED s_errors
  /\ UNCHANGED <<s_running, server_socket, client_socket,
                 s_status, g_spc, conn, backlog, out, failed, nsends, setCount>>
  /\ UNCHANGED cvars

\* how many bytes of a sendall() that raises went out before the error:
\* none, or (for a payload) all but the last
PartialWrites(bytes, first) == IF first THEN {0} ELSE {0, Len(bytes) - 1}

\* one sendall(bytes) call on the accepted socket, continuing at pc `next`
\* when it returns.  It returns when all bytes are written; it raises
\* BrokenPipeError/ConnectionResetError ("pipe") or another exception
\* ("other"), possibly after part of the bytes went out; on a socket that
\* stop() has closed it raises without writing.
SendAll(bytes, next, first) ==
  LET c == client_socket IN
  \/ /\ conn[c] = "open"
     /\ first => nsends < MaxSends
     /\ out' = [out EXCEPT ![c] = out[c] \o bytes]
     /\ nsends' = IF first THEN nsends + 1 ELSE nsends
     /\ s_pc' = next
     /\ frame_data' = IF first THEN frame_data ELSE <<>>
     /\ UNCHANGED <<s_errors, failed>>
  \/ /\ conn[c] = "open"
     /\ \E k \in PartialWrites(bytes, first) : \E kind \in {"pipe", "other"} :
          /\ out' = [out EXCEPT ![c] = out[c] \o SubSeq(bytes, 1, k)]
          /\ s_errors' = IF kind = "other"
                           THEN s_errors \cup {"Streaming error"}
                           ELSE s_errors
     /\ failed' = failed \cup {c}
     /\ s_pc' = AfterSendError
     /\ frame_data' = <<>>
     /\ UNCHANGED nsends
  \/ /\ conn[c] = "closed"
     /\ s_errors' = s_errors \cup {"Streaming error"}
     /\ failed' = failed \cup {c}
     /\ s_pc' = AfterSendError
     /\ frame_data' = <<>>
     /\ UNCHANGED <<out, nsends>>

\* stream_to_client lines 82-83: struct.pack('!I', len(frame_data))
FrameHeaderMutWithHeader(d) == pack(Len(d) + HeaderLen)
FrameHeader(d) == pack(Len(d))

\* stream_to_client lines 82-83
SSendHeader ==
  /\ s_pc = "send_hdr"
  /\ SendAll(FrameHeader(frame_data), "send_body", TRUE)
  /\ UNCHANGED <<s_running, server_socket, client_socket, current_frame,
                 s_status, g_spc, conn, backlog, setCount, encoded>>
  /\ UNCHANGED cvars

\* stream_to_client line 86
SSendBody ==
  /\ s_pc = "send_body"
  /\ SendAll(frame_data, "stream_test", FALSE)
  /\ UNCHANGED <<s_running, server_socket, client_socket, current_frame,
                 s_status, g_spc, conn, backlog, setCount, encoded>>
  /\ UNCHANGED cvars

\* run lines 58-62
SInnerFinally ==
  /\ s_pc = "inner_finally"
  /\ IF client_socket # None
       THEN /\ conn' = [conn EXCEPT ![client_socket] = FinallyClose(@)]
            /\ client_socket' = None
            /\ s_status' = Append(s_status, "Client disconnected")
       ELSE UNCHANGED <<conn, client_socket, s_status>>
  /\ s_pc' = "loop"
  /\ UNCHANGED <<s_running, server_socket, current_frame,
                 frame_data, s_errors, g_spc, backlog, out, failed,
                 nsends, setCount, encoded>>
  /\ UNCHANGED cvars

\* run lines 66-68
SOuterFinally ==
  /\ s_pc = "outer_finally"
  /\ server_socket' = IF server_socket # "none" THEN "closed" ELSE server_socket
  /\ s_pc' = "done"
  /\ UNCHANGED <<s_running, client_socket, current_frame,
                 frame_data, s_status, s_errors, g_spc, conn, backlog, out, failed,
                 nsends, setCount, encoded>>
  /\ UNCHANGED cvars

\* set_frame lines 113-115 take no lock and test nothing: the call goes
\* through whatever the stream thread is doing
SetFrameReadyMutLock(pc) == pc \notin {"send_hdr", "send_body"}
SetFrameReady(pc) == TRUE

\* set_frame lines 113-115, called from the capture callback
\* (ServerWindow.on_video_frame line 237) with a non-null image.  The
\* callback runs on the GUI thread, which creates and starts the thread in
\* one handler (lines 203-205) and, once it calls stop(), waits for the
\* thread and drops it (lines 189-191, 252-253).
SetFrame ==
  /\ s_pc # "idle"
  /\ g_spc = "none"
  /\ SetFrameReady(s_pc)
  /\ setCount < MaxSets
  /\ setCount' = setCount + 1
  /\ current_frame' = SetFrameValue(current_frame, setCount + 1)
  /\ UNCHANGED <<s_pc, s_running, server_socket, client_socket,
                 frame_data, s_status, s_errors, g_spc, conn, backlog, out, failed,
                 nsends, encoded>>
  /\ UNCHANGED cvars

\* stop line 119, called from the GUI thread
SStopFlag ==
  /\ g_spc = "none"
  /\ s_pc # "idle"
  /\ s_running' = FALSE
  /\ g_spc' = "test_client"
  /\ UNCHANGED <<s_pc, server_socket, client_socket, current_frame,
                 frame_data, s_status, s_errors, conn, backlog, out, failed,
                 nsends, setCount, encoded>>
  /\ UNCHANGED cvars

\* stop line 120: if self.client_socket
SStopTestClient ==
  /\ g_spc = "test_client"
  /\ g_spc' = IF client_socket # None THEN "close_client" ELSE "test_server"
  /\ UNCHANGED <<s_pc, s_running, server_socket, client_socket, current_frame,
                 frame_data, s_status, s_errors, conn, backlog, out, failed,
                 nsends, setCount, encoded>>
  /\ UNCHANGED cvars

\* stop line 121: self.client_socket.close(); the attribute is read again
\* and is None if the stream thread has finished the session in between
SStopCloseClient ==
  /\ g_spc = "close_client"
  /\ IF client_socket # None
       THEN /\ conn' = [conn EXCEPT ![client_socket] = "closed"]
            /\ g_spc' = "test_server"
       ELSE /\ g_spc' = "raised"
            /\ UNCHANGED conn
  /\ UNCHANGED <<s_pc, s_running, server_socket, client_socket, current_frame,
                 frame_data, s_status, s_errors, backlog, out, failed,
                 nsends, setCount, encoded>>
  /\ UNCHANGED cvars

\* stop lines 122-123
SStopCloseServer ==
  /\ g_spc = "test_server"
  /\ server_socket' = IF server_socket # "none" THEN "closed" ELSE server_socket
  /\ g_spc' = "returned"
  /\ UNCHANGED <<s_pc, s_running, client_socket, current_frame,
                 frame_data, s_status, s_errors, conn, backlog, out, failed,
                 nsends, setCount, encoded>>
  /\ UNCHANGED cvars

\* a client connects to the listening port; the kernel completes the
\* handshake and queues the connection until accept() takes it (clients
\* are numbered in the order in which they connect)
ClientConnect ==
  /\ server_socket = "open"
  /\ \E c \in Clients :
       /\ conn[c] = "new"
       /\ \A d \in Clients : d < c => conn[d] # "new"
       /\ conn' = [conn EXCEPT ![c] = "queued"]
       /\ backlog' = Append(backlog, c)
  /\ UNCHANGED <<s_pc, s_running, server_socket, client_socket, current_frame,
                 frame_data, s_status, s_errors, g_spc, out, failed,
                 nsends, setCount, encoded>>
  /\ UNCHANGED cvars

ServerThread == SStart \/ SRun \/ SBindOk \/ SBindFail \/ SLoop \/ SAccept
                \/ SAcceptTimeout \/ SAcceptError \/ SStreamTest
                \/ SCheckFrame \/ SCompress \/ SSendHeader \/ SSendBody
                \/ SInnerFinally \/ SOuterFinally

\* stop lines 120-123: what stop() does after it has cleared the flag
StopRest == SStopTestClient \/ SStopCloseClient \/ SStopCloseServer

StopThread == SStopFlag \/ StopRest

SNext == ServerThread \/ StopThread \/ SetFrame \/ ClientConnect

Init == CInit /\ SInit

SpecClient == Init /\ [][CNext]_vars

\* the receive thread connected to a peer that may also write messages of
\* length 0
SpecClientAnyPeer == Init /\ [][CNext \/ PeerSendEmpty]_vars

\* the receive thread is scheduled whenever it can take a step
FairSpecClient == SpecClient /\ WF_vars(ClientThread)

SpecServer == Init /\ [][SNext]_vars

\* the stream thread is scheduled whenever it can take a step, and a
\* stop() call that has begun runs to its end; whether and when stop() is
\* called is up to the user
FairSpecServer == SpecServer /\ WF_vars(ServerThread) /\ WF_vars(StopRest)

(* ===================== properties of the client ======================== *)

\* stream offset at which the i-th message ends
MsgEnd(i) == SumLen(sentLog, i)

\* number of messages written completely
NSent == IF unsent = <<>> THEN Len(sentLog) ELSE Len(sentLog) - 1

\* messages whose last byte recv() has returned
Consumed == { i \in 1..Len(sentLog) : MsgEnd(i) <= rdPos }

\* a payload has been read completely and decompress_frame is about to be
\* called on it
InFlight == /\ phase = "body"
            /\ c_pc \in {"recv_test", "decode"}
            /\ Len(data) = size
            /\ rdPos = callPos + size

Last(q) == q[Len(q)]

\* C1: however the stream is split into recv() chunks and whatever timeouts
\* occur in between, the buffers handed to decompress_frame are exactly the
\* payloads the peer wrote, in the order written: the k-th call gets the
\* k-th payload, and every payload whose bytes have all been read has been
\* handed over (or is the one about to be).
C1_FramingRoundTrip ==
  /\ Len(decoderLog) + (IF InFlight THEN 1 ELSE 0) = Cardinality(Consumed)
  /\ \A i \in 1..Len(decoderLog) :
       /\ i <= Len(sentLog)
       /\ decoderLog[i].buf = sentLog[i]
       /\ decoderLog[i].pos = MsgEnd(i)

C1_Witness ==
  /\ Len(decoderLog) >= 2
  /\ decoderLog[1].buf # decoderLog[2].buf
  /\ split

\* C2: decompress_frame is only ever called on a buffer whose length is the
\* value N of the 4-byte header that precedes it in the stream, and while a
\* recv_exact call is active its buffer holds every byte read since the call
\* began (nothing is dropped on a timeout or a short read), never more than
\* was asked for.
C2_ExactLength ==
  /\ \A i \in 1..Len(decoderLog) :
       LET e == decoderLog[i]
           h == e.pos - Len(e.buf)
       IN /\ Len(e.buf) = e.n
          /\ h >= HeaderLen
          /\ e.n = unpack(SubSeq(stream, h - HeaderLen + 1, h))
  /\ c_pc \in {"recv_test", "recv_call"} =>
       /\ Len(data) <= size
       /\ rdPos - callPos = Len(data)
       /\ data = SubSeq(stream, callPos + 1, rdPos)

C2_Witness ==
  /\ split
  /\ decoderLog # <<>>
  /\ Len(Last(decoderLog).buf) >= 3

DecodeStepStays ==
  (c_pc = "decode" /\ c_pc' # "decode") => (c_pc' = "loop" /\ c_sock' = c_sock)

C3_Forwarding ==
  \A i \in 1..Len(sentLog) :
    (MsgEnd(i) <= rdPos /\ ~(InFlight /\ MsgEnd(i) = rdPos)) =>
      LET q == decompress_frame(sentLog[i]) IN
        IF q = None
          THEN \A j \in 1..Len(sinkLog) : sinkLog[j].pos # MsgEnd(i)
          ELSE \E j \in 1..Len(sinkLog) : sinkLog[j] = [img |-> q, pos |-> MsgEnd(i)]

\* C3: a message whose payload does not decode produces no frame_received
\* emission, the step that finishes decoding always returns to the top of
\* the receive loop with the socket untouched, and every message read after
\* it that does decode is forwarded.
C3_DecodeFailureSkips == []C3_Forwarding /\ [][DecodeStepStays]_vars

C3_Witness ==
  /\ Len(sentLog) >= 2
  /\ decompress_frame(sentLog[1]) = None
  /\ decompress_frame(sentLog[2]) # None
  /\ \E j \in 1..Len(sinkLog) : sinkLog[j].pos = MsgEnd(2)
  /\ c_sock = "open"

\* the stream ended in the middle of a message
TruncatedStream == peerClosed /\ unsent # <<>>

ClientStopped ==
  /\ c_pc = "done"
  /\ c_sock = "closed"
  /\ c_status # <<>>
  /\ Last(c_status) = "Disconnected"

C4_Safe ==
  /\ \A i \in 1..Len(decoderLog) : decoderLog[i].pos <= MsgEnd(NSent)
  /\ \A j \in 1..Len(sinkLog) : sinkLog[j].pos <= MsgEnd(NSent)
  /\ c_pc = "done" => ClientStopped

\* C4: when the peer closes, bytes of an incomplete header or payload are
\* never decoded or forwarded, and the receive thread always goes on to
\* leave the loop, close its socket and emit "Disconnected" as its last
\* status; run() ends by returning.
C4_PeerCloseStops == []C4_Safe /\ (peerClosed ~> ClientStopped)

C4_Witness ==
  /\ TruncatedStream
  /\ rdPos = Len(stream)
  /\ ClientStopped
  /\ c_running

\* C7: the frames forwarded to the sink are an order-preserving subsequence
\* of the messages written to the socket: each emission is the decoded
\* payload of one written message, and successive emissions come from
\* strictly later messages (no reordering, no duplicate).
C7_SinkOrder ==
  /\ \A j \in 1..Len(sinkLog) :
       \E i \in 1..Len(sentLog) :
         /\ MsgEnd(i) = sinkLog[j].pos
         /\ sinkLog[j].img = decompress_frame(sentLog[i])
         /\ sinkLog[j].img # None
  /\ \A j \in 1..(Len(sinkLog) - 1) : sinkLog[j].pos < sinkLog[j + 1].pos

C7_Witness ==
  /\ Len(sinkLog) >= 2
  /\ sinkLog[1].img # sinkLog[2].img

(* ===================== properties of the server ======================== *)

Count(q, v) == Cardinality({ i \in 1..Len(q) : q[i] = v })

C5_Slot ==
  /\ current_frame = (IF setCount = 0 THEN None ELSE setCount)
  /\ encoded # None => encoded \in 1..setCount

C5_NeverOlder == encoded' >= encoded

\* C5: the slot holds the image of the latest set_frame call and is empty
\* only when set_frame was never called; every image the streamer hands to
\* compress_frame was passed to set_frame before, and the streamer never
\* encodes an image older than one it has encoded already.
C5_LatestFrameSlot == []C5_Slot /\ [][C5_NeverOlder]_vars

C5_Witness ==
  /\ setCount = 2
  /\ encoded = 2
  /\ s_pc = "send_hdr"
  /\ \E c \in Clients : Len(out[c]) >= HeaderLen + 2

\* C6: while the slot is empty no byte has been written on any connection;
\* bytes appear on a connection only after the first set_frame call.
C6_NoBytesWhileEmpty ==
  /\ current_frame = None => \A c \in Clients : out[c] = <<>>
  /\ (\E c \in Clients : out[c] # <<>>) => setCount >= 1

C6_Witness ==
  /\ client_socket # None
  /\ conn[client_socket] = "open"
  /\ s_pc = "check_frame"
  /\ current_frame = None
  /\ s_running

C8_OneSession ==
  /\ Cardinality({ c \in Clients : conn[c] = "open" }) <= 1
  /\ \A c \in Clients : conn[c] \in {"new", "queued"} => out[c] = <<>>
  /\ \A c \in Clients : out[c] # <<>> =>
       \A d \in Clients : (d # c /\ conn[d] = "open") => conn[c] = "closed"

C8_WritesToActiveOnly ==
  \A c \in Clients : out'[c] # out[c] =>
    /\ client_socket = c
    /\ \A d \in Clients : d # c => conn[d] # "open"

\* a connection is waiting in the queue while no session is active
C8_Waiting == backlog # <<>> /\ client_socket = None

\* a session begins only when none is active, and with the connection that
\* has waited longest
C8_AcceptsOldest ==
  client_socket' # client_socket /\ client_socket' # None =>
    /\ client_socket = None
    /\ backlog # <<>>
    /\ client_socket' = Head(backlog)
    /\ \A d \in Clients : conn[d] # "open"

\* C8: at most one accepted connection is open at a time and bytes are
\* written only to it; a client that connects during a session gets no byte
\* while it waits, and once the earlier session is torn down the waiting
\* connection is the one the server accepts and streams to (unless stop()
\* is called).
C8_SingleClient ==
  /\ []C8_OneSession
  /\ [][C8_WritesToActiveOnly /\ C8_AcceptsOldest]_vars
  /\ C8_Waiting ~> (client_socket # None \/ g_spc # "none")

C8_Witness ==
  /\ \E c \in Clients : \E d \in Clients :
       /\ conn[c] = "closed"
       /\ out[c] # <<>>
       /\ client_socket = d
       /\ out[d] # <<>>
  /\ g_spc = "none"

SessionActive == client_socket # None

C9_Suspended ==
  /\ SessionActive => s_pc \in {"stream_test", "check_frame", "compress",
                                "send_hdr", "send_body", "inner_finally"}
  /\ s_pc \in {"loop", "accept"} => \A c \in Clients : conn[c] # "open"

C9_StopSeenByStreamer ==
  (s_pc = "stream_test" /\ s_pc' # s_pc /\ ~s_running) => s_pc' = "inner_finally"

Torn(c) == conn[c] = "closed" /\ client_socket # c

C10_NoWriteAfterFailure == \A c \in failed : out'[c] = out[c]

C10_Closed(c) ==
  /\ Torn(c)
  /\ Count(s_status, "Client disconnected") = Cardinality({ d \in Clients : Torn(d) })

C10_Accepting ==
  /\ s_pc = "accept"
  /\ client_socket = None
  /\ server_socket = "open"

\* C10: once a sendall() has raised on a connection nothing more is written
\* on it; the connection's socket is closed and "Client disconnected" is
\* emitted for it; and unless stop() has been called the thread gets back to
\* accept() on the open listening socket with no session active.
C10_WriteFailureEndsSession ==
  /\ [][C10_NoWriteAfterFailure]_vars
  /\ (failed # {}) ~> (/\ \A c \in failed : C10_Closed(c)
                       /\ (C10_Accepting \/ g_spc # "none"))

C10_Witness ==
  /\ \E c \in failed : \E d \in Clients :
       /\ Torn(c)
       /\ client_socket = d
       /\ out[d] # <<>>
  /\ g_spc = "none"

\* the thread is in the accept loop with no session, and stop() has
\* cleared the flag
C11_StopWhileListening ==
  /\ s_pc \in {"loop", "accept"}
  /\ client_socket = None
  /\ ~s_running

\* run() has returned and the listening socket is closed
C11_Terminated == s_pc = "done" /\ server_socket = "closed"

\* with the flag cleared, an accept() that ends without a connection goes
\* back to the loop test, and the loop test leaves the loop
C11_NextTimeout ==
  /\ (~s_running /\ s_pc = "accept" /\ s_pc' # s_pc /\ client_socket' = None)
       => s_pc' = "loop"
  /\ (~s_running /\ s_pc = "loop" /\ s_pc' # s_pc) => s_pc' = "outer_finally"

\* C11: when stop() is requested while the server listens with no client,
\* the loop sees the cleared flag at the loop test that follows the pending
\* accept(), leaves the loop, and run() ends with the listening socket
\* closed.
C11_StopEndsAcceptLoop ==
  /\ [][C11_NextTimeout]_vars
  /\ [](s_pc = "done" => server_socket \in {"closed", "unbound"})
  /\ C11_StopWhileListening ~> C11_Terminated

C11_Witness ==
  /\ s_pc = "outer_finally"
  /\ ~s_running
  /\ server_socket = "open"
  /\ s_status = <<"Server listening">>
  /\ g_spc = "test_client"
  /\ backlog = <<>>

\* C12: ReceiveThread.stop() may be called at any point after start(); it
\* never raises, and once it has been called the receive loop terminates
\* and run() returns.
C12_StopAlwaysEnds ==
  /\ [](g_cpc \in {"none", "close", "returned"})
  /\ (g_cpc # "none") ~> (c_pc = "done")

\* stop() has returned before run() reached line 31, and the thread is
\* receiving with the flag set again
C12_LostStop ==
  /\ g_cpc = "returned"
  /\ c_running
  /\ c_sock = "open"
  /\ c_pc = "recv_call"

\* set_frame can be called whenever the GUI thread is free to run the
\* capture callback, whatever the stream thread is doing
C13_Callable ==
  (s_pc # "idle" /\ g_spc = "none" /\ setCount < MaxSets) => ENABLED SetFrame

\* the slot is one value, the frame of the latest call
C13_SingleSlot == current_frame \in 0..MaxSets /\ current_frame = setCount

\* a set_frame call changes the slot and nothing else of the thread
C13_OnlySlot ==
  setCount' # setCount =>
    /\ current_frame' = setCount'
    /\ UNCHANGED <<s_pc, s_running, server_socket, client_socket, frame_data,
                   s_status, s_errors, g_spc, conn, backlog, out, failed,
                   nsends, encoded>>

\* C13: set_frame succeeds at once in every state of the stream thread
\* (before listening, listening, streaming, inside a socket write, after a
\* write error, finished); it changes only the slot, and the slot holds the
\* newest frame alone, so a frame set while the streamer is busy replaces
\* the one before it.
C13_SetFrameNeverWaits ==
  /\ []C13_Callable
  /\ []C13_SingleSlot
  /\ [][C13_OnlySlot]_vars

C13_Witness ==
  /\ s_pc = "send_body"
  /\ encoded = 1
  /\ current_frame = 2
  /\ frame_data = compress_frame(1)

\* the connect attempt has failed
C14_ConnectFailed == \E i \in 1..Len(c_status) : c_status[i] = "Connection error"

C14_NoSession ==
  C14_ConnectFailed =>
    /\ c_pc \in {"finally", "done"}
    /\ c_status[1] = "Connection error"
    /\ \A i \in 2..Len(c_status) : c_status[i] = "Disconnected"
    /\ sinkLog = <<>>
    /\ decoderLog = <<>>
    /\ rdPos = 0

\* C14: when connect fails the error is reported, the receive loop is never
\* entered, nothing is decoded or forwarded, connect is not tried again,
\* and run() goes through its finally block and returns.
C14_ConnectFailureStops ==
  /\ []C14_NoSession
  /\ C14_ConnectFailed ~> ClientStopped

C14_Witness ==
  /\ c_pc = "done"
  /\ c_status = <<"Connection error", "Disconnected">>
  /\ c_sock = "closed"

\* binding the port has failed
C15_BindFailed == "Server error" \in s_errors

C15_NoListener ==
  C15_BindFailed =>
    /\ s_pc \in {"outer_finally", "done"}
    /\ server_socket \in {"unbound", "closed"}
    /\ s_status = <<>>
    /\ client_socket = None
    /\ \A c \in Clients : conn[c] = "new" /\ out[c] = <<>>

\* C15: when the bind fails the error is reported, the accept loop is never
\* entered and no client is ever accepted, the bind is not tried again, and
\* run() goes through its finally block and returns.
C15_BindFailureStops ==
  /\ []C15_NoListener
  /\ C15_BindFailed ~> (s_pc = "done" /\ server_socket = "closed")

C15_Witness ==
  /\ s_pc = "done"
  /\ C15_BindFailed
  /\ server_socket = "closed"
  /\ g_spc = "none"

IsPrefix(a, b) == Len(a) <= Len(b) /\ SubSeq(b, 1, Len(a)) = a

\* the payloads the server can produce
C16_Payloads == { compress_frame(f) : f \in 1..MaxSets }

RECURSIVE C16_WellFormed(_)
\* b is a prefix of a concatenation of messages, each a 4-byte big-endian
\* header followed by a payload of exactly that (positive) length
C16_WellFormed(b) ==
  IF b = <<>> THEN TRUE
  ELSE IF Len(b) < HeaderLen
    THEN \E p \in C16_Payloads : IsPrefix(b, pack(Len(p)))
    ELSE LET n == unpack(SubSeq(b, 1, HeaderLen)) IN
         /\ n > 0
         /\ \E p \in C16_Payloads :
              /\ Len(p) = n
              /\ IF Len(b) >= HeaderLen + n
                   THEN /\ SubSeq(b, HeaderLen + 1, HeaderLen + n) = p
                        /\ C16_WellFormed(SubSeq(b, HeaderLen + n + 1, Len(b)))
                   ELSE IsPrefix(SubSeq(b, HeaderLen + 1, Len(b)), p)

\* C16: on every accepted connection the bytes written so far are a prefix
\* of a sequence of well-formed messages that starts with a header, also on
\* a connection accepted after an earlier session broke off inside a
\* message.
C16_WellFormedStreams == \A c \in Clients : C16_WellFormed(out[c])

C16_Witness ==
  \E c \in failed : \E d \in Clients :
    /\ Torn(c)
    /\ Len(out[c]) \in HeaderLen..(HeaderLen + 1)
    /\ client_socket = d
    /\ Len(out[d]) > HeaderLen + 1
    /\ s_pc = "stream_test"

\* a message of length 0 has been read and nothing else ends the session
C17_EmptyRead ==
  /\ \E i \in Consumed : sentLog[i] = <<>>
  /\ g_cpc = "none"
  /\ ~peerClosed
  /\ ~peerReset

\* C17: a message whose length field is 0 is skipped like an undecodable
\* payload: no frame is forwarded for it and the session goes on with the
\* next header on the same connection.
C17_EmptyMessageSkipped ==
  /\ Len(sinkLog) <= Cardinality({ i \in Consumed : sentLog[i] # <<>> })
  /\ C17_EmptyRead => c_pc \notin {"finally", "done"}

\* the loop has been left after a message of length 0, on a live connection
C17_SessionEnded ==
  /\ C17_EmptyRead
  /\ c_pc = "done"
  /\ c_running
  /\ Last(c_status) = "Disconnected"

\* only set_frame changes the slot
C18_OnlySetFrameWrites == current_frame' # current_frame => setCount' = setCount + 1

\* what is encoded is the slot's value at that moment, also when it has
\* been encoded before
C18_EncodesSlot ==
  (s_pc = "compress" /\ s_pc' = "send_hdr") =>
    /\ frame_data' = compress_frame(current_frame)
    /\ encoded' = current_frame

\* C18: the streamer only reads the slot: once set_frame has been called the
\* slot stays non-empty for the life of the thread, across sessions, and
\* with no set_frame between two sends the same frame is sent again.
C18_ReadLeavesSlot ==
  /\ [](setCount >= 1 => current_frame # None)
  /\ [][C18_OnlySetFrameWrites /\ C18_EncodesSlot]_vars

C18_Witness ==
  /\ setCount = 1
  /\ \E c \in Clients :
       out[c] = WireMessage(compress_frame(1)) \o WireMessage(compress_frame(1))
  /\ current_frame = 1

\* run() has returned and every socket of the thread is closed
C19_AllClosed ==
  /\ s_pc = "done"
  /\ server_socket = "closed"
  /\ \A c \in Clients : conn[c] # "open"

\* C19: whenever stop() is called after start(), also before run() has set
\* the flag, the request is not lost: run() returns and the listening
\* socket and any client socket end up closed.
C19_StopNotLost == (g_spc # "none") ~> C19_AllClosed

\* stop() has returned before run() reached line 32, and the thread is
\* listening with the flag set again
C19_LostStop ==
  /\ g_spc = "returned"
  /\ s_running
  /\ s_pc = "accept"
  /\ server_socket = "open"

\* C20: stop() never fails because the stream thread tears the session
\* down between stop()'s test of self.client_socket and its close() call.
C20_StopNeverRaises == g_spc # "raised"

\* stop() found a client socket, the stream thread's finally block reset
\* the attribute, and stop() called close() on None
C20_Raised ==
  /\ g_spc = "raised"
  /\ client_socket = None
  /\ ~s_running
  /\ \E c \in Clients : Torn(c)

C21_IsSessionEvent(e) == e \in {"Client connected", "Client disconnected"}

\* the connection events of the status stream, in order
C21_Events == SelectSeq(s_status, C21_IsSessionEvent)

C21_Alternate ==
  /\ \A i \in 1..Len(C21_Events) :
       C21_Events[i] = (IF i % 2 = 1 THEN "Client connected"
                                     ELSE "Client disconnected")
  /\ (client_socket # None) <=> (Len(C21_Events) % 2 = 1)
  /\ s_pc \in {"loop", "accept", "outer_finally", "done"} =>
       Len(C21_Events) % 2 = 0

\* an accept() that ends without a connection emits no connection event
C21_QuietTimeout ==
  (s_pc = "accept" /\ s_pc' = "loop") => s_status' = s_status

\* C21: in the status stream "Client connected" and "Client disconnected"
\* alternate, starting with "Client connected": each session is closed by
\* exactly one "Client disconnected" before the next begins, and none is
\* emitted without an open session, in particular not on an accept timeout.
C21_ConnectDisconnectPairs == []C21_Alternate /\ [][C21_QuietTimeout]_vars

C21_Witness ==
  /\ C21_Events = <<"Client connected", "Client disconnected",
                    "Client connected">>
  /\ s_pc = "stream_test"
  /\ g_spc = "none"

C22_QuietAfterStop == g_cpc = "returned" => sinkLog' = sinkLog

\* C22: once ReceiveThread.stop() has returned, no further frame is
\* forwarded to the sink.
C22_NoFrameAfterStop == [][C22_QuietAfterStop]_vars

\* stop() has returned with the flag cleared and the socket closed, and the
\* receive thread holds a complete payload that it is about to decode and
\* forward
C22_FrameInFlight ==
  /\ g_cpc = "returned"
  /\ ~c_running
  /\ c_sock = "closed"
  /\ c_pc = "decode"
  /\ decompress_frame(data) # None

====
